---- MODULE Spec2Model ----
(***************************************************************************)
(* OpenClaw reasoning pipeline (src/agent.py) with its tool layer          *)
(* (src/tools.py), task store (src/todo.py) and long-term memory           *)
(* (src/memory.py).  Text is a TLA+ string handled character by character. *)
(***************************************************************************)
EXTENDS Integers, Sequences, FiniteSets, TLC

(***************************************************************************)
(* Python str primitives used by the pipeline                              *)
(***************************************************************************)
UpperCase == "ABCDEFGHIJKLMNOPQRSTUVWXYZ"
LowerCase == "abcdefghijklmnopqrstuvwxyz"

Whitespace == {" ", "\t", "\n"}

Char(s, i) == SubSeq(s, i, i)

\* str.lower() on one character
LowerChar(c) ==
    IF \E i \in 1..Len(UpperCase) : Char(UpperCase, i) = c
    THEN Char(LowerCase, CHOOSE i \in 1..Len(UpperCase) : Char(UpperCase, i) = c)
    ELSE c

RECURSIVE Lower(_)
\* str.lower()
Lower(s) ==
    IF Len(s) = 0 THEN ""
    ELSE LowerChar(Char(s, 1)) \o Lower(SubSeq(s, 2, Len(s)))

\* str.strip(): drop leading and trailing whitespace
Strip(s) ==
    LET keep == {i \in 1..Len(s) : Char(s, i) \notin Whitespace}
    IN  IF keep = {} THEN ""
        ELSE SubSeq(s, CHOOSE i \in keep : \A j \in keep : i <= j,
                       CHOOSE i \in keep : \A j \in keep : i >= j)

\* str.startswith(p)
StartsWith(s, p) == Len(p) <= Len(s) /\ SubSeq(s, 1, Len(p)) = p

\* str.endswith(p)
EndsWith(s, p) == Len(p) <= Len(s) /\ SubSeq(s, Len(s) - Len(p) + 1, Len(s)) = p

\* position (1-based) of the first occurrence of sub in s at or after from; 0 if none
Find(s, sub, from) ==
    LET hits == {i \in from..(Len(s) - Len(sub) + 1) : SubSeq(s, i, i + Len(sub) - 1) = sub}
    IN  IF hits = {} THEN 0 ELSE CHOOSE i \in hits : \A j \in hits : i <= j

\* Python's "sub in s"
Contains(s, sub) == Find(s, sub, 1) # 0

RECURSIVE SplitLast(_, _)
\* s.split(sep)[-1]: scan left to right over non-overlapping separators, keep the last piece
SplitLast(s, sep) ==
    LET p == Find(s, sep, 1)
    IN  IF p = 0 THEN s
        ELSE SplitLast(SubSeq(s, p + Len(sep), Len(s)), sep)

\* any(pred(k) for k in keys) over a Python list of strings
AnyStartsWith(s, keys) == \E i \in 1..Len(keys) : StartsWith(s, keys[i])
AnyContains(s, keys) == \E i \in 1..Len(keys) : Contains(s, keys[i])

(***************************************************************************)
(* difflib.SequenceMatcher(None, a, b).ratio(), no junk, inputs far below  *)
(* the autojunk length                                                     *)
(***************************************************************************)
\* length of the common run of a from i and b from j, inside the windows
RECURSIVE RunLen(_, _, _, _, _, _)
RunLen(a, i, ahi, b, j, bhi) ==
    IF i > ahi \/ j > bhi \/ Char(a, i) # Char(b, j) THEN 0
    ELSE 1 + RunLen(a, i + 1, ahi, b, j + 1, bhi)

\* find_longest_match: longest block, then earliest in a, then earliest in b
FindLongestMatch(a, alo, ahi, b, blo, bhi) ==
    LET size(c) == RunLen(a, c[1], ahi, b, c[2], bhi)
        Block(c) == <<c[1], c[2], size(c)>>
        Longest(cand) ==
            IF cand = {} THEN <<alo, blo, 0>>
            ELSE Block(CHOOSE c \in cand :
                           \A d \in cand :
                               \/ size(c) > size(d)
                               \/ /\ size(c) = size(d)
                                  /\ \/ c[1] < d[1]
                                     \/ c[1] = d[1] /\ c[2] <= d[2])
    IN  Longest({<<i, j>> \in (alo..ahi) \X (blo..bhi) : Char(a, i) = Char(b, j)})

\* get_matching_blocks: total matched characters, recursing left and right of the longest block
RECURSIVE MatchCount(_, _, _, _, _, _)
MatchCount(a, alo, ahi, b, blo, bhi) ==
    IF alo > ahi \/ blo > bhi THEN 0
    ELSE LET Around(m) ==
                 IF m[3] = 0 THEN 0
                 ELSE m[3]
                      + MatchCount(a, alo, m[1] - 1, b, blo, m[2] - 1)
                      + MatchCount(a, m[1] + m[3], ahi, b, m[2] + m[3], bhi)
         IN  Around(FindLongestMatch(a, alo, ahi, b, blo, bhi))

\* ratio() as the fraction <<numerator, denominator>>: 2*M/T, and 1.0 for two empty strings
Ratio(a, b) ==
    LET total == Len(a) + Len(b)
    IN  IF total = 0 THEN <<1, 1>>
        ELSE <<2 * MatchCount(a, 1, Len(a), b, 1, Len(b)), total>>

\* comparison of two fractions with positive denominators
FracGT(x, y) == x[1] * y[2] > y[1] * x[2]

\* the literals 0 and 0.45 of complete_todo
ZeroScore == <<0, 1>>
Threshold == <<45, 100>>


(***************************************************************************)
(* Python value formatting used in f-strings and log lines                 *)
(***************************************************************************)
RECURSIVE JoinFrom(_, _, _)
\* sep.join(items[i:])
JoinFrom(items, sep, i) ==
    IF i > Len(items) THEN ""
    ELSE IF i = Len(items) THEN items[i]
    ELSE items[i] \o sep \o JoinFrom(items, sep, i + 1)

Join(items, sep) == JoinFrom(items, sep, 1)

\* repr() of a list of strings, e.g. ['a', 'b']
ListRepr(items) ==
    "[" \o Join([i \in 1..Len(items) |-> "'" \o items[i] \o "'"], ", ") \o "]"

\* an optional text: Python None or a str
None == [isNone |-> TRUE, text |-> ""]
Some(t) == [isNone |-> FALSE, text |-> t]

\* str() of an optional text, as an f-string renders it
Str(v) == IF v.isNone THEN "None" ELSE v.text

\* truthiness of an optional text
Truthy(v) == ~v.isNone /\ v.text # ""

(***************************************************************************)
(* Task store (src/todo.py).  The file is absent or holds a list of        *)
(* {task, done}; env tells whether this read / write succeeds.             *)
(***************************************************************************)
NoFile == [exists |-> FALSE, todos |-> <<>>]
File(todos) == [exists |-> TRUE, todos |-> todos]

load_todos(file, env) ==
    IF ~file.exists THEN <<>>
    ELSE IF ~env.read_ok THEN <<>>
    ELSE file.todos

save_todos(file, todos, env) ==
    IF env.write_ok THEN File(todos) ELSE file

add_task(file, task, env) ==
    LET todos == Append(load_todos(file, env), [task |-> task, done |-> FALSE])
    IN  [file   |-> save_todos(file, todos, env),
         result |-> "Task '" \o task \o "' added."]

\* index is 0-based as in the source
mark_done(file, index, env) ==
    LET Saved(marked) ==
            [file   |-> save_todos(file, marked, env),
             result |-> "Task '" \o marked[index + 1].task \o "' marked as done."]
        Mark(todos) ==
            IF 0 <= index /\ index < Len(todos)
            THEN Saved([todos EXCEPT ![index + 1].done = TRUE])
            ELSE [file |-> file, result |-> "Invalid task index."]
    IN  Mark(load_todos(file, env))

(***************************************************************************)
(* Tools (src/tools.py)                                                    *)
(***************************************************************************)
\* the duplicate check without the lower-casing
add_todo_CaseSensitive(file, task, env) ==
    LET todos   == load_todos(file, env)
        cleaned == Strip(task)
    IN  IF \E i \in 1..Len(todos) : cleaned = Strip(todos[i].task)
        THEN [file |-> file, result |-> "Task already exists."]
        ELSE add_task(file, task, env)

add_todo(file, task, env) ==
    LET todos   == load_todos(file, env)
        cleaned == Lower(Strip(task))
    IN  IF \E i \in 1..Len(todos) : cleaned = Lower(Strip(todos[i].task))
        THEN [file |-> file, result |-> "Task already exists."]
        ELSE add_task(file, task, env)

RECURSIVE BestFrom(_, _, _, _)
\* the scan of complete_todo from position i (1-based) on, carrying
\* <<best_match or -1, best_score>>; best_match is the 0-based index
BestFrom(todos, text, i, best) ==
    IF i > Len(todos) THEN best
    ELSE LET Scored(score) ==
                 IF ~todos[i].done /\ FracGT(score, best[2])
                 THEN BestFrom(todos, text, i + 1, <<i - 1, score>>)
                 ELSE BestFrom(todos, text, i + 1, best)
         IN  Scored(Ratio(Lower(text), Lower(todos[i].task)))

BestMatch(todos, text) == BestFrom(todos, text, 1, <<-1, ZeroScore>>)

\* the best candidate accepted whatever its score
complete_todo_NoThreshold(file, task_text, env) ==
    LET Pick(todos, best) ==
            IF Len(todos) = 0
            THEN [file |-> file, result |-> "There are no tasks to complete."]
            ELSE IF best[1] # -1
            THEN mark_done(file, best[1], env)
            ELSE [file |-> file, result |-> "No matching task found."]
    IN  Pick(load_todos(file, env), BestMatch(load_todos(file, env), task_text))

complete_todo(file, task_text, env) ==
    LET Pick(todos, best) ==
            IF Len(todos) = 0
            THEN [file |-> file, result |-> "There are no tasks to complete."]
            ELSE IF best[1] # -1 /\ FracGT(best[2], Threshold)
            THEN mark_done(file, best[1], env)
            ELSE [file |-> file, result |-> "No matching task found."]
    IN  Pick(load_todos(file, env), BestMatch(load_todos(file, env), task_text))

get_current_date(env) == env.today

\* the bodies of the raw results longer than 40 characters, as "title\nbody"
FormattedResults(results) ==
    LET F[i \in 0..Len(results)] ==
            IF i = 0 THEN <<>>
            ELSE IF Len(results[i].body) > 40
                 THEN Append(F[i - 1], results[i].title \o "\n" \o results[i].body)
                 ELSE F[i - 1]
    IN  F[Len(results)]

internet_search(query, env) ==
    IF ~env.search_ok THEN "Search failed: " \o env.error
    ELSE LET Top(formatted) ==
                 Join(SubSeq(formatted, 1, IF Len(formatted) < 3 THEN Len(formatted) ELSE 3),
                      "\n\n---\n\n")
         IN  IF Len(env.search_results) = 0 THEN "No relevant results found."
             ELSE Top(FormattedResults(env.search_results))

(***************************************************************************)
(* Long-term memory (src/memory.py).  The collection keys each document by *)
(* an id derived from its text, so it holds a text at most once.           *)
(***************************************************************************)
\* the call trace of the utterance being processed: one entry per backend or tool call
Traced(m, op, arg, out, ok, messages) ==
    IF m.raised THEN m
    ELSE [m EXCEPT !.calls = Append(@, [op |-> op, arg |-> arg, out |-> out,
                                        ok |-> ok, messages |-> messages])]

Raise(m) == [m EXCEPT !.raised = TRUE]

\* LongTermMemory.add_memory: no handler, a failing store raises into the caller
add_memory(m, text, env) ==
    IF m.raised THEN m
    ELSE IF env.add_ok
    THEN [Traced(m, "add_memory", text, "", TRUE, <<>>) EXCEPT !.memory = @ \cup {text}]
    ELSE Raise(Traced(m, "add_memory", text, "", FALSE, <<>>))

\* the rankings a k-nearest query may return: min(k, size) distinct documents
TopK(collection, k) ==
    LET n == IF Cardinality(collection) < k THEN Cardinality(collection) ELSE k
    IN  {r \in [1..n -> collection] : \A i, j \in 1..n : i # j => r[i] # r[j]}

\* LongTermMemory.query: the ranked documents with distances, or {"documents": [[]]} on error
query(m, text, env) ==
    IF env.query_ok
    THEN [m |-> Traced(m, "query", text, "", TRUE, <<>>),
          documents |-> env.ranked,
          distances |-> [i \in 1..Len(env.ranked) |-> env.distances[i]]]
    ELSE [m |-> Traced(m, "query", text, "", FALSE, <<>>),
          documents |-> <<>>,
          distances |-> <<>>]

(***************************************************************************)
(* Agent (src/agent.py)                                                    *)
(***************************************************************************)
\* self.max_context
max_context == 6

\* st.session_state.config as init_config sets it
config ==
    [user_name |-> "User", user_info |-> "", agent_name |-> "OpenClaw",
     agent_role |-> "Autonomous AI Agent", system_instructions |-> ""]

Turn(role, content) == [role |-> role, content |-> content]

\* seq[:n], the slice taken from the wrong end
LastN_KeepOldest(seq, n) ==
    IF Len(seq) <= n THEN seq ELSE SubSeq(seq, 1, n)

\* seq[-n:] for n > 0
LastN(seq, n) ==
    IF Len(seq) <= n THEN seq ELSE SubSeq(seq, Len(seq) - n + 1, Len(seq))

\* the append without the truncation that follows it
AppendTurn_NoEviction(short_term, role, content) ==
    Append(short_term, Turn(role, content))

\* the append with a window of odd size
AppendTurn_OddWindow(short_term, role, content) ==
    LastN(Append(short_term, Turn(role, content)), max_context - 1)

\* self.short_term.append(...); self.short_term = self.short_term[-self.max_context:]
AppendTurn(short_term, role, content) ==
    LastN(Append(short_term, Turn(role, content)), max_context)

\* an append to the window; appended and windows record each append of this utterance
Said(m, role, content) ==
    IF m.raised THEN m
    ELSE [m EXCEPT !.short_term = AppendTurn(@, role, content),
                   !.appended   = Append(@, Turn(role, content)),
                   !.windows    = Append(@, AppendTurn(m.short_term, role, content))]

\* self.internal_log.append(line)
Logged(m, line) ==
    IF m.raised THEN m
    ELSE [m EXCEPT !.internal_log = Append(@, line)]

Stored(m, file) ==
    IF m.raised THEN m ELSE [m EXCEPT !.todo_file = file]

system_prompt(retrieved_memory) ==
    "\nYou are " \o config.agent_name \o ".\nRole: " \o config.agent_role
    \o ".\n\nSystem Instructions:\n" \o config.system_instructions
    \o "\n\nUser: " \o config.user_name \o "\nUser Info: " \o config.user_info
    \o "\n\nRetrieved Memory:\n" \o ListRepr(retrieved_memory)
    \o "\n\nRules:\n- Use tools ONLY if necessary.\n"
    \o "- For normal knowledge questions, answer directly.\n"
    \o "- Use add_todo only for explicit task creation.\n"
    \o "- Use complete_todo only if user clearly says task is finished.\n"
    \o "- Use date only for date requests.\n\nReasoning format:\n\n{\n"
    \o " \"thought\": \"...\",\n"
    \o " \"action\": \"search | add_todo | complete_todo | date | none\",\n"
    \o " \"action_input\": \"...\",\n"
    \o " \"save_memory\": true/false,\n"
    \o " \"memory_content\": \"...\",\n"
    \o " \"final_answer\": \"...\"\n}\n"

(***************************************************************************)
(* json.loads, as a table over the JSON documents the model may emit:      *)
(* every other text of the model is not valid JSON                         *)
(***************************************************************************)
DocAnswer ==
    "{\"thought\": \"greeting\", \"action\": \"none\", \"final_answer\": \"Hello!\"}"
DocThought ==
    "{\"thought\": \"unsure\"}"
DocSave ==
    "{\"action\": \"none\", \"save_memory\": true, \"memory_content\": \"User owns a cat\", \"final_answer\": \"Noted.\"}"
DocSaveEmpty ==
    "{\"action\": \"none\", \"save_memory\": true, \"memory_content\": \"\", \"final_answer\": \"Ok.\"}"
DocAdd ==
    "{\"action\": \"add_todo\", \"action_input\": \" Buy Milk\", \"final_answer\": \"Adding it.\"}"
DocComplete ==
    "{\"action\": \"complete_todo\", \"action_input\": \"buy milk\", \"final_answer\": \"Completing it.\"}"
DocSearch ==
    "{\"action\": \"search\", \"action_input\": \"tea\", \"final_answer\": \"Searching.\"}"
DocDate ==
    "{\"action\": \"date\", \"save_memory\": true, \"memory_content\": \"User asked the date\"}"
DocDance ==
    "{\"action\": \"dance\", \"action_input\": \"waltz\", \"final_answer\": \"Dancing.\"}"
DocEmpty == "{}"

JsonTable ==
    (DocAnswer :> [thought |-> "greeting", action |-> "none", final_answer |-> "Hello!"])
    @@ (DocThought :> [thought |-> "unsure"])
    @@ (DocSave :> [action |-> "none", save_memory |-> TRUE,
                    memory_content |-> "User owns a cat", final_answer |-> "Noted."])
    @@ (DocSaveEmpty :> [action |-> "none", save_memory |-> TRUE,
                         memory_content |-> "", final_answer |-> "Ok."])
    @@ (DocAdd :> [action |-> "add_todo", action_input |-> " Buy Milk",
                   final_answer |-> "Adding it."])
    @@ (DocComplete :> [action |-> "complete_todo", action_input |-> "buy milk",
                        final_answer |-> "Completing it."])
    @@ (DocSearch :> [action |-> "search", action_input |-> "tea",
                      final_answer |-> "Searching."])
    @@ (DocDate :> [action |-> "date", save_memory |-> TRUE,
                    memory_content |-> "User asked the date"])
    @@ (DocDance :> [action |-> "dance", action_input |-> "waltz",
                     final_answer |-> "Dancing."])
    @@ (DocEmpty :> <<>>)

\* a parse result: Python None, or the parsed dict
NoDecision == [isNone |-> TRUE, dict |-> <<>>]

json_loads(text) ==
    IF text \in DOMAIN JsonTable
    THEN [isNone |-> FALSE, dict |-> JsonTable[text]]
    ELSE NoDecision

\* re.search(r"\{.*\}", text, re.DOTALL): from the first "{" to the last "}", greedy
BraceMatch(text) ==
    LET Span(first, last) ==
            IF first < last THEN Some(SubSeq(text, first, last)) ELSE None
        Greedy(opens, closes) ==
            IF opens # {} /\ closes # {}
            THEN Span(CHOOSE i \in opens : \A j \in opens : i <= j,
                      CHOOSE i \in closes : \A j \in closes : i >= j)
            ELSE None
    IN  Greedy({i \in 1..Len(text) : Char(text, i) = "{"},
               {i \in 1..Len(text) : Char(text, i) = "}"})

\* Agent.safe_parse; ok tells whether the direct parse succeeded
safe_parse(text) ==
    LET Extracted(match) ==
            IF ~match.isNone THEN json_loads(match.text) ELSE NoDecision
    IN  IF ~json_loads(text).isNone THEN json_loads(text)
        ELSE Extracted(BraceMatch(text))

\* dict.get(key, default)
Get(d, key, default) == IF key \in DOMAIN d THEN d[key] ELSE default

\* "not parsed": None or an empty dict
NotParsed(parsed) == parsed.isNone \/ DOMAIN parsed.dict = {}

(***************************************************************************)
(* Model calls.  env.json_raw is the text the model returns to the         *)
(* structured call, env.plain_replies the texts it returns to the plain    *)
(* calls of this utterance, in order.                                      *)
(***************************************************************************)
call_model_json(m, messages, env) ==
    IF env.json_ok
    THEN [m      |-> Traced(m, "json", env.json_raw, "", TRUE, messages),
          parsed |-> safe_parse(env.json_raw)]
    ELSE [m      |-> Logged(Traced(m, "json", "", "", FALSE, messages),
                            "Model JSON call failed: " \o env.error),
          parsed |-> NoDecision]

PlainCalls(m) == Cardinality({i \in 1..Len(m.calls) : m.calls[i].op = "plain"})

\* Agent.call_model_plain: no handler, a failing backend raises into the caller
call_model_plain(m, messages, env) ==
    LET reply == env.plain_replies[PlainCalls(m) + 1]
    IN  IF m.raised THEN [m |-> m, text |-> ""]
        ELSE IF env.plain_ok
        THEN [m |-> Traced(m, "plain", "", reply, TRUE, messages), text |-> reply]
        ELSE [m |-> Raise(Traced(m, "plain", "", "", FALSE, messages)), text |-> ""]

(***************************************************************************)
(* Tool execution                                                          *)
(***************************************************************************)
\* the tool functions, run on the machine state m, with their trace entry
RunTool(m, op, arg, r) ==
    [m |-> Stored(Traced(m, op, arg, r.result, TRUE, <<>>), r.file), result |-> Some(r.result)]

\* the dispatch with the search as its default branch
execute_tool_DefaultSearch(m, action, action_input, env) ==
    LET Dispatch(m1) ==
            CASE action = "add_todo" ->
                     RunTool(m1, "add_todo", action_input, add_todo(m1.todo_file, action_input, env))
              [] action = "complete_todo" ->
                     RunTool(m1, "complete_todo", action_input,
                             complete_todo(m1.todo_file, action_input, env))
              [] action = "date" ->
                     RunTool(m1, "date", "",
                             [file |-> m1.todo_file, result |-> get_current_date(env)])
              [] OTHER ->
                     RunTool(m1, "search", action_input,
                             [file |-> m1.todo_file, result |-> internet_search(action_input, env)])
        Observed(r) ==
            [m |-> Traced(IF Truthy(r.result)
                          THEN Logged(r.m, "Tool observation: " \o r.result.text)
                          ELSE r.m,
                          "execute_tool", action, Str(r.result), TRUE, <<>>),
             result |-> r.result]
    IN  Observed(Dispatch(Logged(Logged(m, "Tool selected: " \o action),
                                 "Tool input: " \o action_input)))

execute_tool(m, action, action_input, env) ==
    LET Dispatch(m1) ==
            CASE action = "search" ->
                     RunTool(m1, "search", action_input,
                             [file |-> m1.todo_file, result |-> internet_search(action_input, env)])
              [] action = "add_todo" ->
                     RunTool(m1, "add_todo", action_input, add_todo(m1.todo_file, action_input, env))
              [] action = "complete_todo" ->
                     RunTool(m1, "complete_todo", action_input,
                             complete_todo(m1.todo_file, action_input, env))
              [] action = "date" ->
                     RunTool(m1, "date", "",
                             [file |-> m1.todo_file, result |-> get_current_date(env)])
              [] OTHER -> [m |-> m1, result |-> None]
        Observed(r) ==
            [m |-> Traced(IF Truthy(r.result)
                          THEN Logged(r.m, "Tool observation: " \o r.result.text)
                          ELSE r.m,
                          "execute_tool", action, Str(r.result), TRUE, <<>>),
             result |-> r.result]
    IN  Observed(Dispatch(Logged(Logged(m, "Tool selected: " \o action),
                                 "Tool input: " \o action_input)))

(***************************************************************************)
(* Agent.process_single_intent                                             *)
(***************************************************************************)
preference_prefixes == <<"i like", "i love", "i prefer", "my favorite", "remember">>
completion_keywords == <<"i did", "i finished", "completed">>
task_triggers == <<"i need to", "i have to", "remind me to">>
knowledge_prefixes == <<"what is", "who is", "define", "explain", "why">>
search_intent_keywords == <<"search", "latest", "recent", "find", "trend", "news">>

\* the if-chain with task creation tested before task completion
Route_CreationFirst(user_lower) ==
    IF AnyStartsWith(user_lower, preference_prefixes) /\ ~EndsWith(user_lower, "?")
    THEN "preference"
    ELSE IF AnyContains(user_lower, task_triggers)
    THEN "creation"
    ELSE IF AnyContains(user_lower, completion_keywords)
    THEN "completion"
    ELSE IF Contains(user_lower, "today") \/ Contains(user_lower, "current date")
    THEN "date"
    ELSE IF /\ AnyStartsWith(user_lower, knowledge_prefixes)
            /\ ~AnyContains(user_lower, search_intent_keywords)
    THEN "knowledge"
    ELSE "reasoning"

\* the if-chain with the knowledge guard tested before the date rule
Route_KnowledgeFirst(user_lower) ==
    IF AnyStartsWith(user_lower, preference_prefixes) /\ ~EndsWith(user_lower, "?")
    THEN "preference"
    ELSE IF AnyContains(user_lower, completion_keywords)
    THEN "completion"
    ELSE IF AnyContains(user_lower, task_triggers)
    THEN "creation"
    ELSE IF /\ AnyStartsWith(user_lower, knowledge_prefixes)
            /\ ~AnyContains(user_lower, search_intent_keywords)
    THEN "knowledge"
    ELSE IF Contains(user_lower, "today") \/ Contains(user_lower, "current date")
    THEN "date"
    ELSE "reasoning"

\* the if-chain of the deterministic rules, in source order
Route(user_lower) ==
    IF AnyStartsWith(user_lower, preference_prefixes) /\ ~EndsWith(user_lower, "?")
    THEN "preference"
    ELSE IF AnyContains(user_lower, completion_keywords)
    THEN "completion"
    ELSE IF AnyContains(user_lower, task_triggers)
    THEN "creation"
    ELSE IF Contains(user_lower, "today") \/ Contains(user_lower, "current date")
    THEN "date"
    ELSE IF /\ AnyStartsWith(user_lower, knowledge_prefixes)
            /\ ~AnyContains(user_lower, search_intent_keywords)
    THEN "knowledge"
    ELSE "reasoning"

\* a return that forgets to append the assistant turn
Respond_NoAppend(m, response, path) ==
    [m |-> m, response |-> response, path |-> path]

\* the append of the assistant turn and the return of a rule or fallback path
Respond(m, response, path) ==
    [m |-> Said(m, "assistant", response), response |-> response, path |-> path]

\* the preference rule acknowledging without storing the fact
PreferenceRule_NoStore(m, user_input, env) ==
    Respond(Logged(m, "Preference stored deterministically."),
            "Got it. I'll remember that.", "preference")

\* 1. deterministic preference storage
PreferenceRule(m, user_input, env) ==
    LET memory_fact == "User preference: " \o Strip(user_input)
    IN  Respond(Logged(add_memory(m, memory_fact, env), "Preference stored deterministically."),
                "Got it. I'll remember that.", "preference")

\* 2. deterministic task completion
CompletionRule(m, user_input, env) ==
    LET Answer(r) == Respond(r.m, r.result.text, "completion")
    IN  Answer(RunTool(m, "complete_todo", user_input,
                       complete_todo(m.todo_file, user_input, env)))

\* 3. deterministic task creation: the first trigger of the list found in the input
CreationRule(m, user_lower, env) ==
    LET First(found) == task_triggers[CHOOSE i \in found : \A j \in found : i <= j]
        trigger == First({i \in 1..Len(task_triggers) : Contains(user_lower, task_triggers[i])})
        Answer(r) == Respond(r.m, r.result.text, "creation")
        Add(task_text) ==
            Answer(RunTool(m, "add_todo", task_text, add_todo(m.todo_file, task_text, env)))
    IN  Add(Strip(SplitLast(user_lower, trigger)))

\* 4. deterministic date handling
DateRule(m, env) ==
    LET Answer(r) == Respond(r.m, r.result.text, "date")
    IN  Answer(RunTool(m, "date", "", [file |-> m.todo_file, result |-> get_current_date(env)]))

\* the knowledge guard sending the conversation window along with the persona
KnowledgeGuard_WithWindow(m, user_input, env) ==
    LET Answer(p) == Respond(p.m, p.text, "knowledge")
        Ask(m1) ==
            Answer(call_model_plain(m1,
                       <<Turn("system", "You are " \o config.agent_role \o ".")>> \o m1.short_term,
                       env))
    IN  Ask(Logged(m, "Knowledge guard triggered."))

\* 5. knowledge guard
KnowledgeGuard(m, user_input, env) ==
    LET Answer(p) == Respond(p.m, p.text, "knowledge")
        Ask(m1) ==
            Answer(call_model_plain(m1,
                       <<Turn("system", "You are " \o config.agent_role \o "."),
                         Turn("user", user_input)>>, env))
    IN  Ask(Logged(m, "Knowledge guard triggered."))

second_messages(observation) ==
    <<Turn("system", "Produce the final answer based on the observation."),
      Turn("user", "Observation: " \o Str(observation))>>

\* the block with the synthesis filling in only for a decision that had no answer
ToolBlock_KeepAnswer(a, action, action_input, env) ==
    LET Answer(s) ==
            [m |-> s.m, final_answer |-> IF a.final_answer # "" THEN a.final_answer ELSE s.text]
        Synthesize(t) == Answer(call_model_plain(t.m, second_messages(t.result), env))
    IN  IF action # "none"
        THEN Synthesize(execute_tool(a.m, action, action_input, env))
        ELSE a

\* the tool-then-synthesize block, lines 290-298 and again lines 306-314
ToolBlock(a, action, action_input, env) ==
    LET Answer(s) == [m |-> s.m, final_answer |-> s.text]
        Synthesize(t) == Answer(call_model_plain(t.m, second_messages(t.result), env))
    IN  IF action # "none"
        THEN Synthesize(execute_tool(a.m, action, action_input, env))
        ELSE a

\* the save that ignores whether memory_content is empty
SaveMemory_EmptyToo(m, save_memory, memory_content, env) ==
    IF save_memory
    THEN Logged(add_memory(m, memory_content, env), "Memory saved by LLM: " \o memory_content)
    ELSE m

\* the save directive dropped
SaveMemory_Never(m, save_memory, memory_content, env) == m

\* lines 316-318: if save_memory and memory_content
SaveMemory(m, save_memory, memory_content, env) ==
    IF save_memory /\ memory_content # ""
    THEN Logged(add_memory(m, memory_content, env), "Memory saved by LLM: " \o memory_content)
    ELSE m

\* a parsed decision, lines 281-323
Decide(m, parsed, env) ==
    LET thought        == Get(parsed, "thought", "")
        action         == Get(parsed, "action", "none")
        action_input   == Get(parsed, "action_input", "")
        final_answer   == Get(parsed, "final_answer", "")
        save_memory    == Get(parsed, "save_memory", FALSE)
        memory_content == Get(parsed, "memory_content", "")
        \* lines 288-298: the thought logged, the tool block
        First ==
            ToolBlock([m |-> Logged(m, "Thought: " \o thought), final_answer |-> final_answer],
                      action, action_input, env)
        \* lines 300-302: the last-resort plain answer
        Answer(p) == [m |-> p.m, final_answer |-> p.text]
        LastResort(a) ==
            IF a.final_answer = ""
            THEN Answer(call_model_plain(
                     Logged(a.m, "Final answer missing from JSON. Falling back to plain model."),
                     a.m.short_term, env))
            ELSE a
        \* lines 304-314: the thought logged and the tool block, once more
        Second(a) ==
            ToolBlock([a EXCEPT !.m = Logged(@, "Thought: " \o thought)],
                      action, action_input, env)
        \* lines 316-323: the memory saved, the answer appended and returned
        Finish(a) ==
            Respond(SaveMemory(a.m, save_memory, memory_content, env),
                    a.final_answer, "parsed")
    IN  Finish(Second(LastResort(First)))

\* 6. the reasoning loop, lines 260-323
ReasoningCycle(m, user_input, env) ==
    LET Fallback(p) == Respond(p.m, p.text, "unparsed")
        Branch(j) ==
            IF NotParsed(j.parsed)
            THEN Fallback(call_model_plain(j.m, j.m.short_term, env))
            ELSE Decide(j.m, j.parsed.dict, env)
        Retrieved(q) ==
            Branch(call_model_json(
                       Logged(Logged(q.m, "Retrieved memory: " \o ListRepr(q.documents)),
                              "Distances: [" \o Join(q.distances, ", ") \o "]"),
                       <<Turn("system", system_prompt(q.documents))>> \o q.m.short_term, env))
    IN  Retrieved(query(m, user_input, env))

process_single_intent(m, user_input, env) ==
    LET Rules(m1, user_lower, route) ==
            CASE route = "preference" -> PreferenceRule(m1, user_input, env)
              [] route = "completion" -> CompletionRule(m1, user_input, env)
              [] route = "creation"   -> CreationRule(m1, user_lower, env)
              [] route = "date"       -> DateRule(m1, env)
              [] route = "knowledge"  -> KnowledgeGuard(m1, user_input, env)
              [] OTHER                -> ReasoningCycle(m1, user_input, env)
    IN  Rules(Said(m, "user", user_input), Strip(Lower(user_input)),
              Route(Strip(Lower(user_input))))

(***************************************************************************)
(* Bounds and input sets                                                   *)
(***************************************************************************)
MaxUtterances == 2
MaxCycles == 1
MaxOutages == 1
MaxWindowUtterances == 4

Utterances ==
    {"I like tea", "Remember the milk?", "I love that I completed it",
     "I did buy milk", "I finished: I need to call mom", "I need to buy milk",
     " Remind me to Walk Dog ", "What is today", "What is tea",
     "Why find news", "hello"}

\* the task files a session may start from (todo.json outlives the process)
InitialFiles ==
    {NoFile,
     File(<<[task |-> "Buy milk", done |-> FALSE], [task |-> "walk dog", done |-> TRUE]>>),
     File(<<[task |-> "buy milk now", done |-> FALSE], [task |-> "buy milk", done |-> FALSE]>>)}

Today == "Friday, November 06, 2026"

LongResult == [title |-> "Tea", body |-> "Tea is an aromatic beverage prepared by pouring hot water over leaves."]
ShortResult == [title |-> "Ad", body |-> "Buy tea now"]

SearchWorlds == {<<>>, <<ShortResult>>, <<ShortResult, LongResult>>}

\* texts of the structured call that are not JSON documents
RawGarbage == {"I cannot answer that.", "{not json}", "} nothing {", "{note} " \o DocAnswer}
RawWrapped == {"Sure: " \o DocAnswer \o " Anything else?"}

RawOutputs == RawGarbage \cup RawWrapped \cup DOMAIN JsonTable

ReplySeqs ==
    {<<"Answer one.", "Answer two.", "Answer three.">>,
     <<"", "Answer two.", "Answer three.">>,
     <<"", "Answer two.", "">>,
     <<"", "", "">>}

Script(raw, replies, results) ==
    [json_raw |-> raw, plain_replies |-> replies, search_results |-> results]

QuietScript == Script("", <<"", "", "">>, <<>>)

AllAnswers == <<"Answer one.", "Answer two.", "Answer three.">>

\* during an outage: each output of the model, every plain call answered
OutageScripts ==
    {Script(raw, AllAnswers, <<ShortResult, LongResult>>) :
        raw \in {"I cannot answer that.", DocAnswer, DocThought, DocSave, DocAdd, DocSearch}}

WindowRuleInputs == {"I like tea", "I did buy milk", "I need to buy milk", "What is today"}
WindowCycleInputs == {"hello"}
WindowScripts ==
    {Script(raw, AllAnswers, <<>>) : raw \in {"I cannot answer that.", DocAdd}}

Scripts ==
    {Script(raw, replies, <<ShortResult, LongResult>>) : raw \in RawOutputs, replies \in ReplySeqs}
    \cup {Script(DocSearch, <<"Answer one.", "Answer two.", "Answer three.">>, w) : w \in SearchWorlds}

Backends == {"read_ok", "write_ok", "search_ok", "query_ok", "add_ok", "json_ok", "plain_ok"}

\* the environment of one utterance: every backend up, the model and the search
\* answering as the script says, the memory ranking its documents as ranked
Env(script, ranked) ==
    [today |-> Today, error |-> "backend unavailable",
     read_ok |-> TRUE, write_ok |-> TRUE, search_ok |-> TRUE, query_ok |-> TRUE,
     add_ok |-> TRUE, json_ok |-> TRUE, plain_ok |-> TRUE,
     json_raw |-> script.json_raw, plain_replies |-> script.plain_replies,
     search_results |-> script.search_results,
     ranked |-> ranked, distances |-> <<"0.8", "1.3">>]

\* the same environment with one backend failing
Outage(env, backend) == [env EXCEPT ![backend] = FALSE]

(***************************************************************************)
(* State                                                                   *)
(***************************************************************************)
VARIABLES
    short_term,     \* Agent.short_term
    internal_log,   \* Agent.internal_log
    memory,         \* the documents of LongTermMemory.collection
    todo_file,      \* the content of TODO_FILE
    history,        \* every turn ever appended to short_term
    last,           \* what the last utterance did
    utterances,     \* number of utterances processed
    cycles,         \* number of them that ran a reasoning cycle with all backends up
    outages,        \* number of them processed during an outage
    failed,         \* whether a call of process_single_intent was left by an exception
    disk,           \* TODO_FILE on disk: its length, and whether json.load can read it
    callers,        \* the task operations in progress, one caller per session
    confirmed,      \* the task operations that returned a confirmation to their caller
    overlapped      \* whether a caller took a step while another one was inside an operation

vars == <<short_term, internal_log, memory, todo_file, history, last, utterances, cycles, outages,
          failed, disk, callers, confirmed, overlapped>>

\* what one utterance at a time leaves of the callers
storeVars == <<callers, confirmed, overlapped>>

\* the session state of the agent
agentVars == <<short_term, internal_log, memory, history, last, utterances, cycles, outages, failed>>

MaxOperations == 2

Callers == {"session1", "session2"}

\* len of json.dumps(todos, indent=2) for plain ASCII task texts
JsonLen(todos) ==
    LET entry(t) == Len(t.task) + (IF t.done THEN 40 ELSE 41)
        Sum[i \in 0..Len(todos)] == IF i = 0 THEN 0 ELSE Sum[i - 1] + entry(todos[i])
    IN  IF Len(todos) = 0 THEN 2
        ELSE 4 + Sum[Len(todos)] + 2 * (Len(todos) - 1)

\* the file on disk after a write that nothing disturbed
Written(file) ==
    [size |-> IF file.exists THEN JsonLen(file.todos) ELSE 0, readable |-> TRUE]

\* a caller outside any task operation
Idle == [pc |-> "idle", op |-> "", text |-> "", index |-> -1, todos |-> <<>>,
         result |-> "", operations |-> 0]

NoUtterance ==
    [input |-> "", outcome |-> "none", response |-> "", path |-> "", calls |-> <<>>,
     appended |-> <<>>, windows |-> <<>>,
     before |-> [short_term |-> <<>>, internal_log |-> <<>>, memory |-> {}, todo_file |-> NoFile]]

Init ==
    /\ short_term = <<>>
    /\ internal_log = <<>>
    /\ memory = {}
    /\ todo_file \in InitialFiles
    /\ history = <<>>
    /\ last = NoUtterance
    /\ utterances = 0
    /\ cycles = 0
    /\ outages = 0
    /\ failed = FALSE
    /\ disk = Written(todo_file)
    /\ callers = [p \in Callers |-> Idle]
    /\ confirmed = {}
    /\ overlapped = FALSE

\* the agent and its stores as process_single_intent finds them
Machine ==
    [short_term |-> short_term, internal_log |-> internal_log, memory |-> memory,
     todo_file |-> todo_file, calls |-> <<>>, appended |-> <<>>, windows |-> <<>>,
     raised |-> FALSE]

\* one call of reasoning_loop(user_input), to its return or to the exception that leaves it
Handle(user_input, env) ==
    \E r \in {process_single_intent(Machine, user_input, env)} :
        /\ short_term' = r.m.short_term
        /\ internal_log' = r.m.internal_log
        /\ memory' = r.m.memory
        /\ todo_file' = r.m.todo_file
        /\ history' = history \o r.m.appended
        /\ last' = [input    |-> user_input,
                    outcome  |-> IF r.m.raised THEN "raised" ELSE "returned",
                    response |-> IF r.m.raised THEN "" ELSE r.response,
                    path     |-> r.path,
                    calls    |-> r.m.calls,
                    appended |-> r.m.appended,
                    windows  |-> r.m.windows,
                    before   |-> [short_term |-> short_term, internal_log |-> internal_log,
                                  memory |-> memory, todo_file |-> todo_file]]
        /\ utterances' = utterances + 1
        /\ failed' = (failed \/ r.m.raised)
        /\ disk' = Written(r.m.todo_file)
        /\ UNCHANGED storeVars

RouteOf(user_input) == Route(Strip(Lower(user_input)))

\* the inputs by the path the router sends them to
RuleInputs == {u \in Utterances : RouteOf(u) \in {"preference", "completion", "creation", "date"}}
KnowledgeInputs == {u \in Utterances : RouteOf(u) = "knowledge"}
ReasoningInputs == {u \in Utterances : RouteOf(u) = "reasoning"}

\* the handler on the inputs of each path
RuleStep(inputs) ==
    \E u \in inputs : Handle(u, Env(QuietScript, <<>>))

KnowledgeStep(inputs, replies) ==
    \E u \in inputs, r \in replies : Handle(u, Env(Script("", r, <<>>), <<>>))

CycleStep(inputs, scripts) ==
    \E u \in inputs, script \in scripts, ranked \in TopK(memory, 2) :
        Handle(u, Env(script, ranked))

\* the handler while one backend is failing
OutageStep(inputs, backends, scripts) ==
    \E u \in inputs, backend \in backends, script \in scripts, ranked \in TopK(memory, 2) :
        Handle(u, Outage(Env(script, ranked), backend))

\* an utterance answered by one of the rules 1-4
RuleUtterance ==
    /\ utterances < MaxUtterances
    /\ RuleStep(RuleInputs)
    /\ UNCHANGED <<cycles, outages>>

\* an utterance answered by the knowledge guard
KnowledgeUtterance ==
    /\ utterances < MaxUtterances
    /\ KnowledgeStep(KnowledgeInputs, ReplySeqs)
    /\ UNCHANGED <<cycles, outages>>

\* an utterance that reaches the reasoning cycle
CycleUtterance ==
    /\ utterances < MaxUtterances
    /\ cycles < MaxCycles
    /\ CycleStep(ReasoningInputs, Scripts)
    /\ cycles' = cycles + 1
    /\ UNCHANGED outages

Next == RuleUtterance \/ KnowledgeUtterance \/ CycleUtterance

Spec == Init /\ [][Next]_vars

\* an utterance processed while one backend is failing
OutageUtterance ==
    /\ utterances < MaxUtterances
    /\ outages < MaxOutages
    /\ \/ OutageStep(RuleInputs \cup KnowledgeInputs, Backends, {Script("", AllAnswers, <<>>)})
       \/ OutageStep(ReasoningInputs, Backends, OutageScripts)
    /\ outages' = outages + 1
    /\ UNCHANGED cycles

NextFaults == Next \/ OutageUtterance

SpecFaults == Init /\ [][NextFaults]_vars

\* long conversations over a few inputs, so that the window overflows
WindowUtterance ==
    /\ utterances < MaxWindowUtterances
    /\ \/ RuleStep(WindowRuleInputs)
       \/ KnowledgeStep(KnowledgeInputs, {AllAnswers})
       \/ CycleStep(WindowCycleInputs, WindowScripts)
       \/ OutageStep(KnowledgeInputs, {"plain_ok"}, {QuietScript})
       \/ OutageStep(WindowCycleInputs, {"plain_ok"}, WindowScripts)
    /\ UNCHANGED <<cycles, outages>>

InitWindow == Init /\ todo_file = NoFile

SpecWindow == InitWindow /\ [][WindowUtterance]_vars

(***************************************************************************)
(* The task store under several callers: sessions of the application share *)
(* TODO_FILE, and each task operation is a sequence of file accesses.      *)
(***************************************************************************)
\* the operations the callers ask for
Requests ==
    {[op |-> "add_todo", text |-> "call mom"], [op |-> "add_todo", text |-> " Call Mom"],
     [op |-> "complete_todo", text |-> "buy milk"], [op |-> "complete_todo", text |-> "call mom"]}

\* what load_todos returns now: [] for a missing file and for one json.load cannot read
OnDisk == load_todos(todo_file, [read_ok |-> disk.readable])

\* todos.append({"task": task, "done": False}) written as the new task alone
Appended_Alone(todos, task) == <<[task |-> task, done |-> FALSE]>>

\* todos.append({"task": task, "done": False})
Appended(todos, task) == Append(todos, [task |-> task, done |-> FALSE])

\* a step of caller p that leaves it as c
Step(p, c) ==
    /\ callers' = [callers EXCEPT ![p] = c]
    /\ overlapped' = (overlapped \/ \E q \in Callers \ {p} : callers[q].pc # "idle")

\* caller p back from its operation with a result
Returned(p, result) ==
    [callers[p] EXCEPT !.pc = "idle", !.result = result, !.index = -1, !.todos = <<>>]

\* caller p entering an operation
Entered(p, req, pc) ==
    [callers[p] EXCEPT !.pc = pc, !.op = req.op, !.text = req.text, !.result = "",
                       !.operations = @ + 1]

\* add_todo up to its return or its call of add_task: one load, the duplicate check
CallAddTodo(p) ==
    /\ callers[p].pc = "idle"
    /\ callers[p].operations < MaxOperations
    /\ \E req \in {r \in Requests : r.op = "add_todo"} :
          IF \E i \in 1..Len(OnDisk) : Lower(Strip(req.text)) = Lower(Strip(OnDisk[i].task))
          THEN Step(p, [Entered(p, req, "idle") EXCEPT !.result = "Task already exists."])
          ELSE Step(p, Entered(p, req, "add_task"))
    /\ UNCHANGED <<todo_file, disk, confirmed>>
    /\ UNCHANGED agentVars

\* add_task up to its call of save_todos: a second load, the append
AddTask(p) ==
    /\ callers[p].pc = "add_task"
    /\ Step(p, [callers[p] EXCEPT !.pc = "open",
                                  !.todos = Appended(OnDisk, callers[p].text),
                                  !.result = "Task '" \o callers[p].text \o "' added."])
    /\ UNCHANGED <<todo_file, disk, confirmed>>
    /\ UNCHANGED agentVars

\* complete_todo up to its return or its call of mark_done: one load, the best match
CallCompleteTodo(p) ==
    /\ callers[p].pc = "idle"
    /\ callers[p].operations < MaxOperations
    /\ \E req \in {r \in Requests : r.op = "complete_todo"} :
          \E best \in {BestMatch(OnDisk, req.text)} :
              IF Len(OnDisk) = 0
              THEN Step(p, [Entered(p, req, "idle") EXCEPT
                                !.result = "There are no tasks to complete."])
              ELSE IF best[1] # -1 /\ FracGT(best[2], Threshold)
              THEN Step(p, [Entered(p, req, "mark_done") EXCEPT !.index = best[1]])
              ELSE Step(p, [Entered(p, req, "idle") EXCEPT !.result = "No matching task found."])
    /\ UNCHANGED <<todo_file, disk, confirmed>>
    /\ UNCHANGED agentVars

\* mark_done up to its return or its call of save_todos: a second load, the flag set
MarkDone(p) ==
    /\ callers[p].pc = "mark_done"
    /\ IF 0 <= callers[p].index /\ callers[p].index < Len(OnDisk)
       THEN Step(p, [callers[p] EXCEPT
                        !.pc = "open",
                        !.todos = [OnDisk EXCEPT ![callers[p].index + 1].done = TRUE],
                        !.result = "Task '" \o OnDisk[callers[p].index + 1].task
                                   \o "' marked as done."])
       ELSE Step(p, Returned(p, "Invalid task index."))
    /\ UNCHANGED <<todo_file, disk, confirmed>>
    /\ UNCHANGED agentVars

\* save_todos: open(TODO_FILE, "w") creates or empties the file
OpenFile(p) ==
    /\ callers[p].pc = "open"
    /\ Step(p, [callers[p] EXCEPT !.pc = "write"])
    /\ todo_file' = File(<<>>)
    /\ disk' = [size |-> 0, readable |-> FALSE]
    /\ UNCHANGED confirmed
    /\ UNCHANGED agentVars

\* save_todos: json.dump and the close write the text from offset 0, the operation
\* returns; a longer text written by another caller since the open keeps its tail
WriteFile(p) ==
    /\ callers[p].pc = "write"
    /\ Step(p, Returned(p, callers[p].result))
    /\ IF disk.size > JsonLen(callers[p].todos)
       THEN /\ todo_file' = File(<<>>)
            /\ disk' = [disk EXCEPT !.readable = FALSE]
       ELSE /\ todo_file' = File(callers[p].todos)
            /\ disk' = Written(File(callers[p].todos))
    /\ confirmed' = confirmed \cup {[op |-> callers[p].op, text |-> callers[p].text,
                                      result |-> callers[p].result]}
    /\ UNCHANGED agentVars

NextStore ==
    \E p \in Callers :
        \/ CallAddTodo(p)
        \/ AddTask(p)
        \/ CallCompleteTodo(p)
        \/ MarkDone(p)
        \/ OpenFile(p)
        \/ WriteFile(p)

SpecStore == Init /\ [][NextStore]_vars

(***************************************************************************)
(* Properties                                                              *)
(***************************************************************************)
\* positions of the calls of one kind in the trace of the last utterance
CallsOf(op) == {i \in 1..Len(last.calls) : last.calls[i].op = op}

ModelCalls == CallsOf("json") \cup CallsOf("plain")

Min(a, b) == IF a < b THEN a ELSE b

\* the environment with every backend up, for the tool functions applied on their own
UpEnv == Env(QuietScript, <<>>)

TasksOf(file) == IF file.exists THEN file.todos ELSE <<>>

Normalized(text) == Strip(Lower(text))

MatchesPreference(text) ==
    LET n == Normalized(text)
    IN  /\ \E i \in 1..Len(preference_prefixes) : StartsWith(n, preference_prefixes[i])
        /\ ~EndsWith(n, "?")

HasCompletionKeyword(text) ==
    LET n == Normalized(text)
    IN  \E i \in 1..Len(completion_keywords) : Contains(n, completion_keywords[i])

HasCreationTrigger(text) ==
    LET n == Normalized(text)
    IN  \E i \in 1..Len(task_triggers) : Contains(n, task_triggers[i])

HasDateKeyword(text) ==
    LET n == Normalized(text)
    IN  Contains(n, "today") \/ Contains(n, "current date")

ReachesKnowledgeGuard(text) ==
    /\ LET n == Normalized(text)
       IN  /\ \E i \in 1..Len(knowledge_prefixes) : StartsWith(n, knowledge_prefixes[i])
           /\ \A i \in 1..Len(search_intent_keywords) : ~Contains(n, search_intent_keywords[i])
    /\ ~MatchesPreference(text)
    /\ ~HasCompletionKeyword(text)
    /\ ~HasCreationTrigger(text)
    /\ ~HasDateKeyword(text)

\* C1: the conversation window never holds more than max_context = 6 turns, neither
\* between utterances nor right after any single append made while one is processed.
C1_WindowBounded ==
    /\ Len(short_term) <= 6
    /\ \A i \in 1..Len(last.windows) : Len(last.windows[i]) <= 6

\* a window that is full after turns were evicted, the last utterance a reasoning cycle with a tool
C1_Witness ==
    /\ Len(history) > 6
    /\ Len(short_term) = 6
    /\ last.path = "parsed"
    /\ Len(last.windows) = 2

\* C2: the window is the last min(T, 6) turns of the T turns appended so far, in
\* their original order and with role and content untouched.
C2_WindowIsSuffix ==
    /\ Len(short_term) = Min(Len(history), 6)
    /\ \A i \in 1..Len(short_term) :
          short_term[i] = history[Len(history) - Len(short_term) + i]

\* eight turns appended, two of them evicted
C2_Witness ==
    /\ Len(history) = 8
    /\ Len(short_term) = 6
    /\ short_term[1] = history[3]
    /\ last.outcome = "returned"

\* C3: an utterance appends exactly one user turn, holding the input, and when it
\* returns a response exactly one assistant turn, holding that response, after it.
C3_OneTurnEach ==
    last.outcome # "none" =>
        /\ last.appended[1] = Turn("user", last.input)
        /\ Cardinality({i \in 1..Len(last.appended) : last.appended[i].role = "user"}) = 1
        /\ last.outcome = "returned" =>
              /\ last.appended = <<Turn("user", last.input), Turn("assistant", last.response)>>
              /\ SubSeq(short_term, Len(short_term) - 1, Len(short_term)) = last.appended

\* a returned reasoning cycle that invoked a tool and made several model calls
C3_Witness ==
    /\ last.outcome = "returned"
    /\ last.path = "parsed"
    /\ CallsOf("execute_tool") # {}
    /\ Cardinality(CallsOf("plain")) = 3

\* C4: an input that starts with a preference phrasing and does not end in "?"
\* stores the memory record "User preference: <input>", returns the fixed
\* acknowledgment, calls no model and leaves the task list alone.
C4_PreferenceCapture ==
    (last.outcome # "none" /\ MatchesPreference(last.input)) =>
        /\ ("User preference: " \o Strip(last.input)) \in memory
        /\ last.response = "Got it. I'll remember that."
        /\ ModelCalls = {}
        /\ todo_file = last.before.todo_file

\* a preference input that also holds a completion keyword, with tasks in the file
C4_Witness ==
    /\ last.input = "I love that I completed it"
    /\ last.outcome = "returned"
    /\ Len(TasksOf(todo_file)) > 0
    /\ "User preference: I love that I completed it" \in memory

NoReasoningCycle == CallsOf("query") = {} /\ ModelCalls = {}

\* C5 as stated: every input holding a completion keyword is answered with the
\* outcome of complete_todo on it, without a reasoning cycle.
C5_Original ==
    (last.outcome # "none" /\ HasCompletionKeyword(last.input)) =>
        /\ last.response = complete_todo(last.before.todo_file, last.input, UpEnv).result
        /\ NoReasoningCycle

\* C5: an input holding a completion keyword that the preference rule does not
\* capture is answered with the outcome of complete_todo on the raw input, and the
\* task file is the one complete_todo leaves; no reasoning cycle runs.
C5_CompletionRule ==
    (last.outcome # "none" /\ HasCompletionKeyword(last.input) /\ ~MatchesPreference(last.input)) =>
        /\ last.response = complete_todo(last.before.todo_file, last.input, UpEnv).result
        /\ todo_file = complete_todo(last.before.todo_file, last.input, UpEnv).file
        /\ NoReasoningCycle

\* a completion input that also holds a creation trigger, and one that completes a task
C5_Witness ==
    /\ last.input = "I did buy milk"
    /\ last.response = "Task 'Buy milk' marked as done."
    /\ last.before.short_term # <<>>
    /\ last.before.short_term[1].content = "I finished: I need to call mom"

\* the calls of one kind in the trace of the last utterance, in order
EntriesOf(op) == SelectSeq(last.calls, LAMBDA e : e.op = op)

IsDuplicate(todos, text) ==
    \E i \in 1..Len(todos) : Lower(Strip(todos[i].task)) = Lower(Strip(text))

\* C6: the first add_todo of an utterance answers "Task already exists." exactly
\* when a stored task, open or done, equals its text up to case and outer blanks,
\* and appends the text as an open task otherwise; any further add_todo of the
\* same text answers "Task already exists.", so the list grows by one at most.
C6_AddTodoIdempotent ==
    LET adds   == EntriesOf("add_todo")
        before == TasksOf(last.before.todo_file)
        after  == TasksOf(todo_file)
    IN  Len(adds) > 0 =>
            LET dup == IsDuplicate(before, adds[1].arg)
            IN  /\ adds[1].out = IF dup THEN "Task already exists."
                                 ELSE "Task '" \o adds[1].arg \o "' added."
                /\ \A i \in 2..Len(adds) :
                      adds[i].arg = adds[1].arg => adds[i].out = "Task already exists."
                /\ Len(after) = Len(before) + (IF dup THEN 0 ELSE 1)
                /\ ~dup => after = Append(before, [task |-> adds[1].arg, done |-> FALSE])

\* add_todo called twice with the same new text: added, then already there
C6_Witness ==
    /\ Len(EntriesOf("add_todo")) = 2
    /\ EntriesOf("add_todo")[1].out = "Task ' Buy Milk' added."
    /\ EntriesOf("add_todo")[2].out = "Task already exists."
    /\ Len(TasksOf(todo_file)) = Len(TasksOf(last.before.todo_file)) + 1

\* no open task scores above 0.45 against the text
NoCandidate(todos, text) ==
    \A i \in 1..Len(todos) :
        ~todos[i].done => ~FracGT(Ratio(Lower(text), Lower(todos[i].task)), Threshold)

LastDecision == safe_parse(EntriesOf("json")[1].arg).dict

\* C8: a parsed decision whose action is not "none" invokes execute_tool exactly
\* once, and the observation of that invocation is the one in the prompt of the
\* final synthesis call.
C8_SingleToolInvocation ==
    (last.path = "parsed" /\ last.outcome = "returned"
        /\ Get(LastDecision, "action", "none") # "none") =>
        /\ Len(EntriesOf("execute_tool")) = 1
        /\ EntriesOf("plain")[Len(EntriesOf("plain"))].messages[2].content
              = "Observation: " \o EntriesOf("execute_tool")[1].out

\* C9: an input that reaches the knowledge guard makes exactly one call, a plain
\* model call on the persona message and the raw input; memory is neither queried
\* nor written, no structured call and no tool runs, the task file is unchanged.
C9_KnowledgeGuard ==
    (last.outcome # "none" /\ ReachesKnowledgeGuard(last.input)) =>
        /\ Len(last.calls) = 1
        /\ last.calls[1].op = "plain"
        /\ last.calls[1].messages = <<Turn("system", "You are Autonomous AI Agent."),
                                      Turn("user", last.input)>>
        /\ last.outcome = "returned" => last.response = last.calls[1].out
        /\ memory = last.before.memory
        /\ todo_file = last.before.todo_file

\* a knowledge question asked when the window and the memory already hold something
C9_Witness ==
    /\ last.input = "What is tea"
    /\ last.outcome = "returned"
    /\ last.before.short_term # <<>>
    /\ last.before.memory # {}

Unparsable(raw) ==
    /\ json_loads(raw).isNone
    /\ BraceMatch(raw).isNone \/ json_loads(BraceMatch(raw).text).isNone

\* a log line other than the two retrieval lines every reasoning cycle writes
RecordsParseFailure(line) ==
    ~StartsWith(line, "Retrieved memory: ") /\ ~StartsWith(line, "Distances: ")

\* the fallback of an unparsable structured output, the log apart: one plain call
\* on the whole window gives the answer, no tool runs, memory is not written
UnparsedFallback ==
    /\ Len(EntriesOf("plain")) = 1
    /\ EntriesOf("plain")[1].messages = last.windows[1]
    /\ last.outcome = "returned" => last.response = EntriesOf("plain")[1].out
    /\ EntriesOf("execute_tool") = <<>>
    /\ memory = last.before.memory

\* C10: after an unparsable structured output the answer comes from one plain
\* call on the whole window, no tool runs, memory is not written, and the
\* internal log gains an entry that records the parse failure.
C10_UnparsedFallbackLogged ==
    (Len(EntriesOf("json")) = 1 /\ EntriesOf("json")[1].ok /\ Unparsable(EntriesOf("json")[1].arg)) =>
        /\ UnparsedFallback
        /\ \E i \in (Len(last.before.internal_log) + 1)..Len(internal_log) :
              RecordsParseFailure(internal_log[i])

\* the last utterance ran a parsed decision carrying a save directive
SaveDirective ==
    /\ last.path = "parsed"
    /\ Get(LastDecision, "save_memory", FALSE)
    /\ Get(LastDecision, "memory_content", "") # ""

\* the records the last utterance was instructed to create
Instructed ==
    IF MatchesPreference(last.input) THEN {"User preference: " \o Strip(last.input)}
    ELSE IF SaveDirective THEN {Get(LastDecision, "memory_content", "")}
    ELSE {}

\* C11: an utterance adds to the memory store nothing but the preference record
\* of a preference input or the memory_content of a parsed decision whose
\* save_memory is true and whose memory_content is not empty; every other path
\* leaves the store as it was, and no utterance removes a record.
C11_MemoryOnlyByInstruction ==
    last.outcome # "none" =>
        /\ last.before.memory \subseteq memory
        /\ memory \ last.before.memory \subseteq Instructed

\* a store that already holds a preference gains the record of a save directive
C11_Witness ==
    /\ SaveDirective
    /\ last.before.memory = {"User preference: I like tea"}
    /\ memory = {"User preference: I like tea", "User owns a cat"}

\* C12: whatever backend fails while an utterance is processed, the utterance
\* returns a response and appends the assistant turn that holds it; no failure
\* leaves process_single_intent as an exception.
C12_FailuresDegrade ==
    last.outcome # "none" =>
        /\ last.outcome = "returned"
        /\ Len(last.appended) > 0
        /\ last.appended[Len(last.appended)] = Turn("assistant", last.response)

\* the stored list holds what a confirmation of a task operation says it holds
Honoured(e) ==
    /\ (e.op = "add_todo" /\ e.out = "Task '" \o e.arg \o "' added.") =>
           \E k \in 1..Len(TasksOf(todo_file)) : TasksOf(todo_file)[k].task = e.arg
    /\ (e.op = "complete_todo" /\ EndsWith(e.out, "' marked as done.")) =>
           \E k \in 1..Len(TasksOf(todo_file)) :
               /\ TasksOf(todo_file)[k].done
               /\ e.out = "Task '" \o TasksOf(todo_file)[k].task \o "' marked as done."

\* C13: a task operation whose write is denied does not confirm success: every
\* "added" or "marked as done" reported during an utterance is in the stored list.
C13_DeniedWriteReported ==
    \A i \in 1..Len(last.calls) : Honoured(last.calls[i])

\* rule 5 matches: a knowledge prefix and no search-intent keyword
MatchesKnowledge(text) ==
    LET n == Normalized(text)
    IN  /\ \E i \in 1..Len(knowledge_prefixes) : StartsWith(n, knowledge_prefixes[i])
        /\ \A i \in 1..Len(search_intent_keywords) : ~Contains(n, search_intent_keywords[i])

\* the number of the first rule, in the stated order, that the input matches; 6 if none
FirstRule(text) ==
    IF MatchesPreference(text) THEN 1
    ELSE IF HasCompletionKeyword(text) THEN 2
    ELSE IF HasCreationTrigger(text) THEN 3
    ELSE IF HasDateKeyword(text) THEN 4
    ELSE IF MatchesKnowledge(text) THEN 5
    ELSE 6

\* the operations of the last utterance, in order
OpsOf(calls) == [i \in 1..Len(calls) |-> calls[i].op]

\* C14: the rules are tried in the order preference, completion, creation, date,
\* knowledge guard; the response and the operations of an utterance are those of
\* the first rule its input matches and of no other rule, and the memory query
\* that opens a reasoning cycle runs exactly for the inputs that match no rule.
C14_FirstMatchingRule ==
    LET rule == FirstRule(last.input)
    IN  last.outcome # "none" =>
            /\ rule = 1 =>
                  /\ OpsOf(last.calls) = <<"add_memory">>
                  /\ last.response = "Got it. I'll remember that."
                  /\ todo_file = last.before.todo_file
            /\ rule = 2 =>
                  /\ OpsOf(last.calls) = <<"complete_todo">>
                  /\ last.calls[1].arg = last.input
                  /\ last.response = last.calls[1].out
                  /\ memory = last.before.memory
            /\ rule = 3 =>
                  /\ OpsOf(last.calls) = <<"add_todo">>
                  /\ last.response = last.calls[1].out
                  /\ memory = last.before.memory
            /\ rule = 4 =>
                  /\ OpsOf(last.calls) = <<"date">>
                  /\ last.response = Today
                  /\ memory = last.before.memory
                  /\ todo_file = last.before.todo_file
            /\ rule = 5 =>
                  /\ OpsOf(last.calls) = <<"plain">>
                  /\ last.response = last.calls[1].out
                  /\ memory = last.before.memory
                  /\ todo_file = last.before.todo_file
            /\ rule = 6 <=> CallsOf("query") # {}
            /\ rule = 6 <=> CallsOf("json") # {}

\* an input that matches the completion rule and the creation rule, and one that
\* matches the date rule and the knowledge guard before it
C14_Witness ==
    /\ last.input = "I finished: I need to call mom"
    /\ OpsOf(last.calls) = <<"complete_todo">>
    /\ last.before.short_term = <<Turn("user", "What is today"), Turn("assistant", Today)>>

\* the plain calls of the last utterance made on the conversation window
LastResortCalls == SelectSeq(last.calls, LAMBDA e : e.op = "plain" /\ e.messages = last.windows[1])

\* the plain calls of the last utterance made on a tool observation
SynthesisCalls ==
    SelectSeq(last.calls, LAMBDA e : e.op = "plain" /\ Len(e.messages) = 2
                                     /\ e.messages[1] = second_messages(None)[1])

\* neither the decision nor the synthesis on the tool observation gave an answer
AnswerMissing ==
    IF Get(LastDecision, "action", "none") = "none"
    THEN Get(LastDecision, "final_answer", "") = ""
    ELSE SynthesisCalls[1].out = ""

\* C15: in a reasoning cycle with a parsed decision, when the decision and the
\* tool synthesis leave no final answer, one plain call on the conversation
\* window is made and its text is the answer returned; so the answer returned is
\* empty only if that call returned the empty text.
C15_LastResort ==
    (last.path = "parsed" /\ last.outcome = "returned") =>
        /\ AnswerMissing => (Len(LastResortCalls) = 1 /\ last.response = LastResortCalls[1].out)
        /\ last.response = "" => (Len(LastResortCalls) = 1 /\ LastResortCalls[1].out = "")

\* the last entry of a non-empty sequence
Last(seq) == seq[Len(seq)]

\* C16: when the parsed decision names an action other than "none", the answer
\* returned and appended to the window is the text of a synthesis call made on a
\* tool observation of this utterance, never the final_answer of the decision.
C16_SynthesisOverrides ==
    (last.path = "parsed" /\ last.outcome = "returned"
        /\ Get(LastDecision, "action", "none") # "none") =>
        /\ EntriesOf("plain") # <<>> /\ EntriesOf("execute_tool") # <<>>
        /\ Last(EntriesOf("plain")).messages
              = <<Turn("system", "Produce the final answer based on the observation."),
                  Turn("user", "Observation: " \o Last(EntriesOf("execute_tool")).out)>>
        /\ last.response = Last(EntriesOf("plain")).out
        /\ Last(short_term) = Turn("assistant", Last(EntriesOf("plain")).out)

\* a decision that carried an answer of its own along with a tool action
C16_Witness ==
    /\ last.path = "parsed"
    /\ Get(LastDecision, "action", "none") = "search"
    /\ Get(LastDecision, "final_answer", "") = "Searching."
    /\ last.response = "Answer two."

\* C17: a reasoning cycle that returns writes the memory_content of its parsed
\* decision, once and unaltered, when save_memory is true and memory_content is
\* not empty, whichever branch gave the answer; any other reasoning cycle
\* (directive absent, content empty, output unparsed) writes nothing.
C17_SaveDirectiveHonoured ==
    (CallsOf("query") # {} /\ last.outcome = "returned") =>
        IF SaveDirective
        THEN /\ OpsOf(EntriesOf("add_memory")) = <<"add_memory">>
             /\ EntriesOf("add_memory")[1].arg = Get(LastDecision, "memory_content", "")
             /\ memory = last.before.memory \cup {Get(LastDecision, "memory_content", "")}
        ELSE /\ EntriesOf("add_memory") = <<>>
             /\ memory = last.before.memory

\* a directive honoured although the answer came from a tool synthesis that
\* followed a last-resort call
C17_Witness ==
    /\ SaveDirective
    /\ Get(LastDecision, "action", "none") = "date"
    /\ Len(LastResortCalls) = 1
    /\ last.response = "Answer three."
    /\ "User asked the date" \in memory \ last.before.memory

KnownActions == {"search", "add_todo", "complete_todo", "date"}

\* the log lines the last utterance added
NewLogLines == SubSeq(internal_log, Len(last.before.internal_log) + 1, Len(internal_log))

\* C18: execute_tool on an action name outside search, add_todo, complete_todo
\* and date runs no tool and yields None without raising: no observation is
\* logged, the task list and the memory store stay as they were, and the
\* utterance returns the text of the synthesis call.
C18_UnknownAction ==
    (last.path = "parsed" /\ Get(LastDecision, "action", "none") \notin KnownActions \cup {"none"}) =>
        /\ EntriesOf("execute_tool") # <<>>
        /\ \A i \in 1..Len(last.calls) :
              /\ last.calls[i].op \notin KnownActions
              /\ last.calls[i].op = "execute_tool" => last.calls[i].out = "None"
        /\ \A i \in 1..Len(NewLogLines) : ~StartsWith(NewLogLines[i], "Tool observation: ")
        /\ todo_file = last.before.todo_file
        /\ ~SaveDirective => memory = last.before.memory
        /\ last.outcome = "returned"
        /\ last.response = Last(EntriesOf("plain")).out

\* the action "dance" met with tasks in the file and a record in memory
C18_Witness ==
    /\ last.path = "parsed"
    /\ Get(LastDecision, "action", "none") = "dance"
    /\ last.response = "Answer two."
    /\ Len(TasksOf(todo_file)) = 2
    /\ memory # {}

\* no caller is inside a task operation
Quiescent == \A p \in Callers : callers[p].pc = "idle"

\* the stored list holds what the confirmation c says
Kept(c) ==
    IF c.op = "add_todo"
    THEN \E k \in 1..Len(OnDisk) : OnDisk[k].task = c.text
    ELSE \E k \in 1..Len(OnDisk) :
             /\ OnDisk[k].done
             /\ c.result = "Task '" \o OnDisk[k].task \o "' marked as done."

\* a write confirmed to its caller is missing from the stored list
LostUpdate == Quiescent /\ \E c \in confirmed : ~Kept(c)

\* the stored list holds two tasks equal up to case and outer blanks
DuplicateStored ==
    /\ Quiescent
    /\ \E i, j \in 1..Len(OnDisk) :
          i < j /\ Lower(Strip(OnDisk[i].task)) = Lower(Strip(OnDisk[j].task))

\* C19: with two callers of the task store, a lost update or a stored duplicate
\* (case-insensitive) occurs only after steps of their operations interleaved:
\* as long as every operation ran as a whole, from its first load to its save,
\* neither state is reached.
C19_SerializedIsSafe ==
    (LostUpdate \/ DuplicateStored) => overlapped

\* interleaved operations left both: a confirmed write missing and a duplicate stored
C19_Witness ==
    /\ overlapped
    /\ LostUpdate
    /\ DuplicateStored

\* positions of the tasks the last utterance turned from open to done
Completed ==
    {i \in 1..Min(Len(TasksOf(last.before.todo_file)), Len(TasksOf(todo_file))) :
        ~TasksOf(last.before.todo_file)[i].done /\ TasksOf(todo_file)[i].done}

\* every task is still there, in place, and no done flag went back to false
TasksKept ==
    /\ Len(TasksOf(todo_file)) >= Len(TasksOf(last.before.todo_file))
    /\ \A i \in 1..Len(TasksOf(last.before.todo_file)) :
          /\ TasksOf(todo_file)[i].task = TasksOf(last.before.todo_file)[i].task
          /\ TasksOf(last.before.todo_file)[i].done => TasksOf(todo_file)[i].done

\* C20: one utterance turns at most one task to done, on the completion rule
\* and in a reasoning cycle alike, and that task is the best-scoring open task
\* for the text given to complete_todo; no task is removed and no done flag
\* goes back to false.
C20_AtMostOneCompletion ==
    last.outcome # "none" =>
        /\ TasksKept
        /\ Cardinality(Completed) <= 1
        /\ \A i \in Completed :
              /\ EntriesOf("complete_todo") # <<>>
              /\ i - 1 = BestMatch(TasksOf(last.before.todo_file),
                                    EntriesOf("complete_todo")[1].arg)[1]

\* the role a turn at position i has in a window that starts with the user
RoleAt(i) == IF i % 2 = 1 THEN "user" ELSE "assistant"

\* a window of even length whose turns are user, assistant, user, assistant, ...
Alternates(window) ==
    /\ Len(window) % 2 = 0
    /\ \A i \in 1..Len(window) : window[i].role = RoleAt(i)

\* C21: between utterances, as long as every call of process_single_intent so far
\* has returned normally, the window has even length and alternates user, assistant,
\* ..., from a user turn at its head to an assistant turn at its end.
C21_WindowAlternates ==
    ~failed =>
        /\ Alternates(short_term)
        /\ utterances > 0 =>
              /\ short_term[1].role = "user"
              /\ short_term[Len(short_term)].role = "assistant"

\* a full window after a user turn and then an assistant turn were evicted: the user
\* turn of the last utterance left the window headed by an assistant turn, and the
\* answer restored the order
C21_Witness ==
    /\ ~failed
    /\ last.outcome = "returned"
    /\ Len(history) = 8
    /\ Len(short_term) = 6
    /\ Len(last.windows) = 2
    /\ last.windows[1][1].role = "assistant"
    /\ last.windows[2] = short_term
    /\ short_term[1].role = "user"

====
